---------------------------- MODULE Spec2Model ----------------------------
(***************************************************************************)
(* A model of streamlit_csv.py, the MetDataset CSV preview page.           *)
(*                                                                         *)
(* Python strings are sequences of code points, so that str.strip,         *)
(* str.startswith, str.lower, str.join and the ordering used by sorted()   *)
(* are computed and not assumed.  A value that may be a string, None or a  *)
(* float NaN is a record [t |-> "str" | "none" | "nan" | "list", s |-> _]. *)
(***************************************************************************)
EXTENDS Integers, Sequences, FiniteSets, TLC

(***************************************************************************)
(* String literals of the source, as code points.                          *)
(***************************************************************************)
image_path == <<105, 109, 97, 103, 101, 95, 112, 97, 116, 104>>
gs_scheme == <<103, 115, 58, 47, 47>>
slash == <<47>>
comma_space == <<44, 32>>
Preview == <<80, 114, 101, 118, 105, 101, 119>>
URL == <<85, 82, 76>>
Signing_error == <<83, 105, 103, 110, 105, 110, 103, 32, 101, 114, 114, 111, 114>>
view == <<118, 105, 101, 119>>
grid == <<103, 114, 105, 100>>
table == <<116, 97, 98, 108, 101>>
Grid == <<71, 114, 105, 100>>
Table == <<84, 97, 98, 108, 101>>
empty_str == << >>

\* Strings that only occur in inputs.
species == <<115, 112, 101, 99, 105, 101, 115>>
age == <<97, 103, 101>>
page == <<112, 97, 103, 101>>
GRID == <<71, 82, 73, 68>>
foo == <<102, 111, 111>>
gs_a == <<103, 115, 58, 47, 47, 98, 47, 97>>
http_x == <<104, 116, 116, 112, 58, 47, 47, 120>>
denied == <<100, 101, 110, 105, 101, 100>>
val_a == <<97>>
val_sp_b == <<32, 98>>
val_b == <<98>>
val_blank == <<32>>
https_prefix == <<104, 116, 116, 112, 115, 58, 47, 47>>

(***************************************************************************)
(* Python values.                                                          *)
(***************************************************************************)
Str(s) == [t |-> "str", s |-> s]
None == [t |-> "none", s |-> << >>]
NaN == [t |-> "nan", s |-> << >>]

IsStr(v) == v.t = "str"

\* bool(v): None and "" are falsy, every other string and float('nan') are truthy.
Truthy(v) ==
    CASE v.t = "none" -> FALSE
      [] v.t = "str" -> v.s # << >>
      [] v.t = "list" -> v.s # << >>
      [] OTHER -> TRUE

Range(f) == {f[i] : i \in DOMAIN f}

\* str.isspace() for one code point (the ASCII part).
IsSpace(c) == c \in {9, 10, 11, 12, 13, 28, 29, 30, 31, 32}

RECURSIVE LStrip(_)
LStrip(s) == IF s # << >> /\ IsSpace(Head(s)) THEN LStrip(Tail(s)) ELSE s

RECURSIVE RStrip(_)
RStrip(s) ==
    IF s # << >> /\ IsSpace(s[Len(s)]) THEN RStrip(SubSeq(s, 1, Len(s) - 1)) ELSE s

\* str.strip()
Strip(s) == RStrip(LStrip(s))

\* str.startswith(p)
StartsWith(s, p) == Len(s) >= Len(p) /\ SubSeq(s, 1, Len(p)) = p

\* str.lower() (ASCII)
Lower(s) == [i \in 1..Len(s) |-> IF s[i] \in 65..90 THEN s[i] + 32 ELSE s[i]]

\* a < b for Python strings: code points compared left to right, a proper
\* prefix first.
RECURSIVE StrLess(_, _)
StrLess(a, b) ==
    IF b = << >> THEN FALSE
    ELSE IF a = << >> THEN TRUE
    ELSE IF Head(a) # Head(b) THEN Head(a) < Head(b)
    ELSE StrLess(Tail(a), Tail(b))

\* sorted(S) of a set of strings.
RECURSIVE Sorted(_)
Sorted(S) ==
    IF S = {} THEN << >>
    ELSE LET m == CHOOSE x \in S : \A y \in S \ {x} : StrLess(x, y)
         IN <<m>> \o Sorted(S \ {m})

\* sep.join(vals)
RECURSIVE Join(_, _)
Join(sep, vals) ==
    IF vals = << >> THEN << >>
    ELSE IF Len(vals) = 1 THEN vals[1]
    ELSE vals[1] \o sep \o Join(sep, Tail(vals))

\* dict.get(k, default)
DictGet(d, k, default) == IF k \in DOMAIN d THEN d[k] ELSE default

\* d[k] = v
DictSet(d, k, v) == [x \in DOMAIN d \cup {k} |-> IF x = k THEN v ELSE d[x]]

EmptyDict == [x \in {} |-> << >>]

(***************************************************************************)
(* Config.                                                                 *)
(***************************************************************************)
signed_expiry_hours == 12

NON_ANNOTATION_COLS == {image_path}

(***************************************************************************)
(* GCS helpers.  generate_signed_url is the storage service's: each call   *)
(* either returns a URL or raises, which is the caller-supplied outcome.   *)
(***************************************************************************)
\* str.partition("/") of gs_uri[len("gs://"):]
RECURSIVE PartitionAt(_, _)
PartitionAt(left, rest) ==
    IF rest = << >> THEN <<left, << >> >>
    ELSE IF Head(rest) = 47 THEN <<left, Tail(rest)>>
    ELSE PartitionAt(Append(left, Head(rest)), Tail(rest))

_parse_gs_uri(gs_uri) ==
    PartitionAt(<< >>, SubSeq(gs_uri, Len(gs_scheme) + 1, Len(gs_uri)))

\* The URL a successful signing returns: an https URL of the blob that
\* carries the lifetime.
sign_gs_uri(gs_uri, hours) ==
    LET bp == _parse_gs_uri(gs_uri)
    IN https_prefix \o bp[1] \o slash \o bp[2] \o <<63, hours>>

SignOk == [ok |-> TRUE, msg |-> << >>]
SignFail(m) == [ok |-> FALSE, msg |-> m]


(***************************************************************************)
(* State.                                                                  *)
(*   path_or_buffer, expiry_hours  arguments of the latest call of         *)
(*                     load_records_from_csv (<< >>: no call yet)          *)
(*   signing           what the signing service answers, per row           *)
(*   ret               what the latest call returned or raised             *)
(*   sign_log          the gs:// URIs sign_gs_uri was called with during   *)
(*                     the latest call, in call order                      *)
(*   parsed            whether the latest call ran pd.read_csv             *)
(*   cache             st.cache_data's entries for load_records_from_csv   *)
(*   loaded            history: the (content, expiry_hours, value) of every *)
(*                     call that has returned so far                       *)
(*   calls             number of calls / script runs so far                *)
(*   uploaded_file     the file uploader's value (<< >>: nothing uploaded) *)
(*   query_params      st.query_params                                     *)
(*   the remaining ones are the script's globals of the same name;         *)
(*   outcome says how the latest run of the script ended, grid_cells and   *)
(*   df what it rendered.                                                  *)
(***************************************************************************)
VARIABLES path_or_buffer, expiry_hours, signing, ret, sign_log, parsed, cache,
          loaded, calls, uploaded_file, query_params, _view_param, _initial_index,
          view_mode, records, all_sets, labels_per_set, sets_filter,
          selected_labels_per_set, show_url, filtered, outcome, grid_cells, df

loadVars == <<path_or_buffer, expiry_hours, signing, ret, sign_log, parsed, cache,
              loaded>>
viewVars == <<query_params, _view_param, _initial_index, view_mode>>
dataVars == <<records, all_sets, labels_per_set>>
filterVars == <<sets_filter, selected_labels_per_set, filtered>>
renderVars == <<show_url, outcome, grid_cells, df>>
vars == <<loadVars, calls, uploaded_file, viewVars, dataVars, filterVars, renderVars>>

(***************************************************************************)
(* Load dataset (CSV).  A DataFrame is [columns, rows]: the column names   *)
(* pd.read_csv made (distinct), and each row's cells in column order.  An  *)
(* empty field is NaN, any other field a string.                           *)
(***************************************************************************)
\* row.get(col)
RowGet(columns, row, col) ==
    IF \E i \in 1..Len(columns) : columns[i] = col
    THEN row[CHOOSE i \in 1..Len(columns) : columns[i] = col]
    ELSE None

\* Mutant: the required column is not checked.
MissingImagePathUnchecked(frame) == FALSE

\* "image_path" not in df.columns
MissingImagePath(frame) == image_path \notin Range(frame.columns)

\* Mutant: the image-path column is not excluded.
AnnotationColsAll(columns) == columns

\* annotation_cols = [c for c in df.columns if c not in NON_ANNOTATION_COLS]
AnnotationCols(columns) == SelectSeq(columns, LAMBDA c : c \notin NON_ANNOTATION_COLS)

\* Mutant: a failed signing leaves the raw gs:// path as url.
ResolveUrlKeepsRaw(cell, hours, answer) ==
    IF IsStr(cell) /\ StartsWith(cell.s, gs_scheme)
    THEN IF answer.ok
         THEN [url |-> Str(sign_gs_uri(cell.s, hours)), sign_err |-> None, signed |-> TRUE]
         ELSE [url |-> cell, sign_err |-> Str(answer.msg), signed |-> TRUE]
    ELSE [url |-> cell, sign_err |-> None, signed |-> FALSE]

\* The url and sign_err of one row, and whether sign_gs_uri was called.
ResolveUrl(cell, hours, answer) ==
    IF IsStr(cell) /\ StartsWith(cell.s, gs_scheme)
    THEN IF answer.ok
         THEN [url |-> Str(sign_gs_uri(cell.s, hours)), sign_err |-> None, signed |-> TRUE]
         ELSE [url |-> None, sign_err |-> Str(answer.msg), signed |-> TRUE]
    ELSE [url |-> cell, sign_err |-> None, signed |-> FALSE]

\* labels_by_set of one row: {set_name: [value_as_string]}
RECURSIVE LabelsBySet(_, _, _, _, _)
LabelsBySet(columns, row, cols, k, acc) ==
    IF k > Len(cols) THEN acc
    ELSE LET val == RowGet(columns, row, cols[k])
         IN IF val.t = "nan" \/ val.t = "none"
            THEN LabelsBySet(columns, row, cols, k + 1, acc)
            ELSE LET sval == Strip(val.s)
                 IN IF sval # << >>
                    THEN LabelsBySet(columns, row, cols, k + 1,
                                     DictSet(acc, cols[k], <<sval>>))
                    ELSE LabelsBySet(columns, row, cols, k + 1, acc)

RECURSIVE RowLoop(_, _, _, _, _, _)

\* Mutant: a row whose signing fails is skipped.
RowLoopSkipsFailed(frame, hours, answers, i, recs, log) ==
    IF i > Len(frame.rows) THEN [records |-> recs, sign_log |-> log]
    ELSE LET row == frame.rows[i]
             cell == RowGet(frame.columns, row, image_path)
             res == ResolveUrl(cell, hours, answers[i])
             rec == [url |-> res.url,
                     labels_by_set |->
                         LabelsBySet(frame.columns, row,
                                     AnnotationCols(frame.columns), 1, EmptyDict),
                     __sign_error__ |-> res.sign_err]
         IN RowLoop(frame, hours, answers, i + 1,
                    IF res.sign_err # None THEN recs ELSE Append(recs, rec),
                    IF res.signed THEN Append(log, cell.s) ELSE log)

\* for _, row in df.iterrows(): ... records.append(...)
RowLoop(frame, hours, answers, i, recs, log) ==
    IF i > Len(frame.rows) THEN [records |-> recs, sign_log |-> log]
    ELSE LET row == frame.rows[i]
             cell == RowGet(frame.columns, row, image_path)
             res == ResolveUrl(cell, hours, answers[i])
             rec == [url |-> res.url,
                     labels_by_set |->
                         LabelsBySet(frame.columns, row,
                                     AnnotationCols(frame.columns), 1, EmptyDict),
                     __sign_error__ |-> res.sign_err]
         IN RowLoop(frame, hours, answers, i + 1, Append(recs, rec),
                    IF res.signed THEN Append(log, cell.s) ELSE log)

\* all_sets = sorted({s for r in records for s in r["labels_by_set"].keys()})
AllSets(recs) == Sorted(UNION {DOMAIN r.labels_by_set : r \in Range(recs)})

\* {s: sorted({l for r in records for l in r["labels_by_set"].get(s, [])}) ...}
LabelsPerSet(recs, sets) ==
    [s \in Range(sets) |->
        Sorted(UNION {Range(DictGet(r.labels_by_set, s, << >>)) : r \in Range(recs)})]

Raised(kind) ==
    [status |-> kind, records |-> << >>, all_sets |-> << >>,
     labels_per_set |-> EmptyDict]

\* The body of load_records_from_csv: what it returns or raises, and the
\* signing calls it made.
load_records_from_csv(frame, hours, answers) ==
    IF MissingImagePath(frame)
    THEN [value |-> Raised("ValueError"), sign_log |-> << >>]
    ELSE LET loop == RowLoop(frame, hours, answers, 1, << >>, << >>)
             sets == AllSets(loop.records)
         IN [value |-> [status |-> "ok", records |-> loop.records,
                        all_sets |-> sets,
                        labels_per_set |-> LabelsPerSet(loop.records, sets)],
             sign_log |-> loop.sign_log]

\* Mutant: the entry is keyed by the content alone.
CacheKeyContentOnly(frame, hours) == <<frame>>

\* st.cache_data keys an entry by the arguments' content: the buffer's bytes
\* and expiry_hours.
CacheKey(frame, hours) == <<frame, hours>>

\* A returned value is stored; a raised exception is not.
CacheStore(c, key, value) ==
    IF value.status = "ok" THEN DictSet(c, key, value) ELSE c

\* The decorated function: the cached value on a hit; on a miss the body
\* runs and its value is stored.
CachedLoad(c, frame, hours, answers) ==
    LET key == CacheKey(frame, hours)
    IN IF key \in DOMAIN c
       THEN [value |-> c[key], sign_log |-> << >>, parsed |-> FALSE, cache |-> c]
       ELSE LET r == load_records_from_csv(frame, hours, answers)
            IN [value |-> r.value, sign_log |-> r.sign_log, parsed |-> TRUE,
                cache |-> CacheStore(c, key, r.value)]

(***************************************************************************)
(* Inputs.                                                                 *)
(***************************************************************************)
MaxRows == 2

PathCells == {NaN, Str(gs_a), Str(http_x)}
LabelCells == {Str(val_a), Str(val_sp_b), Str(val_blank)}
AgeCells == {NaN, Str(val_b)}

CellsFor(col) ==
    IF col = image_path THEN PathCells
    ELSE IF col = age THEN AgeCells
    ELSE LabelCells

RowsFor(columns) ==
    {r \in [1..Len(columns) -> PathCells \cup LabelCells \cup AgeCells] :
        \A i \in 1..Len(columns) : r[i] \in CellsFor(columns[i])}

FramesOf(columns, n) ==
    {[columns |-> columns, rows |-> rs] : rs \in [1..n -> RowsFor(columns)]}

LoadHeaders == {<<species, image_path, age>>, <<species, age>>}

LoadFrames == UNION {FramesOf(h, n) : h \in LoadHeaders, n \in 0..MaxRows}

SignAnswers == {SignOk, SignFail(denied), SignFail(empty_str)}

\* The service's answers for a frame: one per row that holds a gs:// path.
AnswersFor(frame) ==
    {a \in [1..Len(frame.rows) -> SignAnswers] :
        \A i \in 1..Len(frame.rows) :
            LET cell == RowGet(frame.columns, frame.rows[i], image_path)
            IN ~(IsStr(cell) /\ StartsWith(cell.s, gs_scheme)) => a[i] = SignOk}

ExpiryChoices == {signed_expiry_hours, 2 * signed_expiry_hours}

(***************************************************************************)
(* Initial state: nothing uploaded, nothing loaded, an empty cache.        *)
(***************************************************************************)
NoFrame == << >>

InitLoad ==
    /\ path_or_buffer = NoFrame
    /\ expiry_hours = signed_expiry_hours
    /\ signing = << >>
    /\ ret = << >>
    /\ sign_log = << >>
    /\ parsed = FALSE
    /\ cache = EmptyDict
    /\ loaded = {}
    /\ calls = 0

InitPage ==
    /\ uploaded_file = NoFrame
    /\ query_params = EmptyDict
    /\ _view_param = None
    /\ _initial_index = 0
    /\ view_mode = Table
    /\ records = << >>
    /\ all_sets = << >>
    /\ labels_per_set = EmptyDict
    /\ sets_filter = << >>
    /\ selected_labels_per_set = EmptyDict
    /\ show_url = FALSE
    /\ filtered = << >>
    /\ outcome = "none"
    /\ grid_cells = << >>
    /\ df = [columns |-> << >>, rows |-> << >>]

Init == InitLoad /\ InitPage

(***************************************************************************)
(* load_records_from_csv called once, with any frame and any answers of    *)
(* the signing service.                                                    *)
(***************************************************************************)
Load(frame, hours, answers) ==
    LET r == CachedLoad(cache, frame, hours, answers)
    IN /\ path_or_buffer' = <<frame>>
       /\ expiry_hours' = hours
       /\ signing' = IF r.parsed THEN answers ELSE << >>
       /\ ret' = <<r.value>>
       /\ sign_log' = r.sign_log
       /\ parsed' = r.parsed
       /\ cache' = r.cache
       /\ loaded' = IF r.value.status = "ok"
                     THEN loaded \cup {<<frame, hours, r.value>>}
                     ELSE loaded
       /\ calls' = calls + 1

pageVars == <<uploaded_file, viewVars, dataVars, filterVars, renderVars>>

LoadOnce ==
    /\ calls < 1
    /\ \E frame \in LoadFrames :
         \E answers \in AnswersFor(frame) : Load(frame, signed_expiry_hours, answers)
    /\ UNCHANGED pageVars

SpecLoad == Init /\ [][LoadOnce]_vars


(***************************************************************************)
(* Vocabulary of the properties.                                           *)
(***************************************************************************)
\* a sorts strictly before b: equal up to some position k, where a ends or
\* holds the smaller code point.
LexLess(a, b) ==
    \E k \in 1..(Len(b)) :
        /\ k <= Len(a) + 1
        /\ \A j \in 1..(k - 1) : a[j] = b[j]
        /\ (k = Len(a) + 1 \/ a[k] < b[k])

StrictlySorted(seq) == \A i, j \in 1..Len(seq) : i < j => LexLess(seq[i], seq[j])

\* s is text without its leading and trailing whitespace.
IsStripOf(s, text) ==
    \E i \in 1..(Len(text) + 1), j \in 0..Len(text) :
        /\ s = SubSeq(text, i, j)
        /\ \A k \in 1..Len(text) : (k < i \/ k > j) => IsSpace(text[k])
        /\ s # << >> => ~IsSpace(s[1]) /\ ~IsSpace(s[Len(s)])

\* The cell holds a value: it is not missing and not blank.
HasValue(cell) == cell.t = "str" /\ \E k \in 1..Len(cell.s) : ~IsSpace(cell.s[k])

IsGsCell(cell) ==
    /\ cell.t = "str"
    /\ Len(cell.s) >= 5
    /\ \A k \in 1..5 : cell.s[k] = gs_scheme[k]

TheFrame == path_or_buffer[1]
TheRet == ret[1]
Called == calls >= 1 /\ path_or_buffer # NoFrame
PathColumn(frame) == CHOOSE k \in 1..Len(frame.columns) : frame.columns[k] = image_path
HasPathColumn(frame) == \E k \in 1..Len(frame.columns) : frame.columns[k] = image_path
PathCell(frame, i) == frame.rows[i][PathColumn(frame)]

\* Record rec carries exactly the labels of row: one stripped value for
\* every annotation column whose cell holds a value, and nothing else.
LabelsAreOf(rec, frame, row) ==
    /\ DOMAIN rec.labels_by_set =
         {frame.columns[k] : k \in {x \in 1..Len(frame.columns) :
                                      /\ frame.columns[x] # image_path
                                      /\ HasValue(row[x])}}
    /\ \A k \in 1..Len(frame.columns) :
         frame.columns[k] \in DOMAIN rec.labels_by_set =>
           /\ Len(rec.labels_by_set[frame.columns[k]]) = 1
           /\ IsStripOf(rec.labels_by_set[frame.columns[k]][1], row[k].s)

\* Record rec carries the image location of the row's image-path cell.
UrlIsOf(rec, cell, answer) ==
    IF IsGsCell(cell)
    THEN IF answer.ok
         THEN rec.url.t = "str" /\ rec.url # cell /\ rec.__sign_error__ = None
         ELSE rec.url = None /\ rec.__sign_error__ = Str(answer.msg)
    ELSE rec.url = cell /\ rec.__sign_error__ = None

(***************************************************************************)
(* C2: a CSV with N data rows and an image_path column gives exactly N     *)
(* records, and record i is built from row i, whatever the rows' paths     *)
(* (gs://, other, missing) and whatever signing calls fail.                *)
(***************************************************************************)
C2_OrderPreserved ==
    (Called /\ HasPathColumn(TheFrame)) =>
        /\ TheRet.status = "ok"
        /\ Len(TheRet.records) = Len(TheFrame.rows)
        /\ \A i \in 1..Len(TheFrame.rows) :
             /\ LabelsAreOf(TheRet.records[i], TheFrame, TheFrame.rows[i])
             /\ UrlIsOf(TheRet.records[i], PathCell(TheFrame, i), signing[i])

C2_Witness ==
    /\ Called /\ HasPathColumn(TheFrame)
    /\ Len(TheFrame.rows) = 2 /\ Len(TheRet.records) = 2
    /\ IsGsCell(PathCell(TheFrame, 1)) /\ ~signing[1].ok
    /\ PathCell(TheFrame, 2) = NaN
    /\ TheRet.records[1].labels_by_set # TheRet.records[2].labels_by_set

(***************************************************************************)
(* C3: a failed signing call does not abort the load: the row's record is  *)
(* emitted with url None and __sign_error__ the failure's string, every other  *)
(* row's record is what it is when that signing succeeds, and only a row   *)
(* whose own signing failed has a __sign_error__.                              *)
(***************************************************************************)
C3_SignFailureLocal ==
    (Called /\ HasPathColumn(TheFrame)) =>
        /\ TheRet.status = "ok"
        /\ Len(TheRet.records) = Len(TheFrame.rows)
        /\ \A i \in 1..Len(TheFrame.rows) :
             /\ (IsGsCell(PathCell(TheFrame, i)) /\ ~signing[i].ok) =>
                  /\ TheRet.records[i].url = None
                  /\ TheRet.records[i].__sign_error__ = Str(signing[i].msg)
                  /\ LET other == load_records_from_csv(
                                      TheFrame, expiry_hours,
                                      [signing EXCEPT ![i] = SignOk]).value
                     IN /\ other.status = "ok"
                        /\ Len(other.records) = Len(TheRet.records)
                        /\ \A j \in 1..Len(TheRet.records) :
                             j # i => other.records[j] = TheRet.records[j]
             /\ TheRet.records[i].__sign_error__ # None =>
                  IsGsCell(PathCell(TheFrame, i)) /\ ~signing[i].ok

C3_Witness ==
    /\ Called /\ HasPathColumn(TheFrame) /\ Len(TheFrame.rows) = 2
    /\ IsGsCell(PathCell(TheFrame, 1)) /\ signing[1] = SignFail(denied)
    /\ IsGsCell(PathCell(TheFrame, 2)) /\ signing[2].ok
    /\ TheRet.records[1].__sign_error__ = Str(denied)
    /\ TheRet.records[2].url.t = "str"

(***************************************************************************)
(* C4: a row whose image-path cell is empty or missing gets the "no url"   *)
(* value the renderers show as "No preview" (None, falsy), no __sign_error__   *)
(* and no signing call; a row whose cell is another non-gs:// string gets  *)
(* that string as url, and no signing call.                                *)
(***************************************************************************)
GsCells(frame) ==
    SelectSeq([i \in 1..Len(frame.rows) |-> PathCell(frame, i)], IsGsCell)

C4_MissingPathIsNoUrl ==
    (Called /\ HasPathColumn(TheFrame) /\ TheRet.status = "ok") =>
        /\ Len(sign_log) = Len(GsCells(TheFrame))
        /\ \A i \in 1..Len(TheFrame.rows) :
             LET cell == PathCell(TheFrame, i)
                 rec == TheRet.records[i]
             IN /\ cell = NaN =>
                     rec.url = None /\ ~Truthy(rec.url) /\ rec.__sign_error__ = None
                /\ (cell.t = "str" /\ ~IsGsCell(cell)) =>
                     rec.url = cell /\ rec.__sign_error__ = None

(***************************************************************************)
(* C5: after a successful load all_sets is the sorted, duplicate-free list *)
(* of the columns other than image_path that hold a value in some row,     *)
(* and labels_per_set maps exactly these sets to the sorted duplicate-free *)
(* list of the stripped values of the column; a record whose cell is       *)
(* missing or blank has no key for the set; rows without an image path     *)
(* contribute their labels.                                                *)
(***************************************************************************)
ColumnValues(frame, k) ==
    {s \in UNION {{SubSeq(frame.rows[i][k].s, a, b) :
                     a \in 1..(Len(frame.rows[i][k].s) + 1),
                     b \in 0..Len(frame.rows[i][k].s)} : i \in 1..Len(frame.rows)} :
        \E i \in 1..Len(frame.rows) :
            HasValue(frame.rows[i][k]) /\ IsStripOf(s, frame.rows[i][k].s)}

C5_VocabularySound ==
    (Called /\ TheRet.status = "ok") =>
        /\ StrictlySorted(TheRet.all_sets)
        /\ Range(TheRet.all_sets) =
             {TheFrame.columns[k] : k \in {x \in 1..Len(TheFrame.columns) :
                 /\ TheFrame.columns[x] # image_path
                 /\ \E i \in 1..Len(TheFrame.rows) : HasValue(TheFrame.rows[i][x])}}
        /\ DOMAIN TheRet.labels_per_set = Range(TheRet.all_sets)
        /\ \A k \in 1..Len(TheFrame.columns) :
             TheFrame.columns[k] \in Range(TheRet.all_sets) =>
               /\ StrictlySorted(TheRet.labels_per_set[TheFrame.columns[k]])
               /\ Range(TheRet.labels_per_set[TheFrame.columns[k]]) =
                    ColumnValues(TheFrame, k)
               /\ << >> \notin Range(TheRet.labels_per_set[TheFrame.columns[k]])
               /\ \E i \in 1..Len(TheRet.records) :
                    TheFrame.columns[k] \in DOMAIN TheRet.records[i].labels_by_set
        /\ \A i \in 1..Len(TheRet.records), k \in 1..Len(TheFrame.columns) :
             ~HasValue(TheFrame.rows[i][k]) =>
               TheFrame.columns[k] \notin DOMAIN TheRet.records[i].labels_by_set

C5_Witness ==
    /\ Called /\ TheRet.status = "ok"
    /\ TheRet.all_sets = <<age, species>>
    /\ TheRet.labels_per_set[species] = <<val_a, val_b>>
    /\ Len(TheRet.records) = 2
    /\ TheRet.records[1].url = NaN
    /\ TheRet.records[1].labels_by_set = (species :> <<val_b>>)
    /\ age \in DOMAIN TheRet.records[2].labels_by_set


(***************************************************************************)
(* load_records_from_csv called again and again, with the same or another  *)
(* content and lifetime.                                                   *)
(***************************************************************************)
MaxCalls == 3

CacheFrames ==
    {[columns |-> <<image_path>>, rows |-> <<<<Str(gs_a)>>, <<Str(gs_a)>>>>],
     [columns |-> <<image_path>>, rows |-> <<<<Str(http_x)>>>>],
     [columns |-> <<age>>, rows |-> <<<<Str(val_b)>>>>]}

LoadAgain ==
    /\ calls < MaxCalls
    /\ \E frame \in CacheFrames, hours \in ExpiryChoices :
         \E answers \in AnswersFor(frame) : Load(frame, hours, answers)
    /\ UNCHANGED pageVars

SpecCache == Init /\ [][LoadAgain]_vars

(***************************************************************************)
(* C6: a call whose (content, expiry_hours) equals that of an earlier call *)
(* that returned gives a value equal to the earlier one, without parsing   *)
(* and without a signing call; any other call parses, and when it has the  *)
(* image_path column makes one signing call per gs:// cell.                *)
(***************************************************************************)
C6_CachedLoad ==
    [][calls' = calls + 1 =>
         LET frame == path_or_buffer'[1]
             before == {e \in loaded : e[1] = frame /\ e[2] = expiry_hours'}
         IN IF before # {}
            THEN /\ \A e \in before : ret'[1] = e[3]
                 /\ ~parsed'
                 /\ sign_log' = << >>
            ELSE /\ parsed'
                 /\ IF HasPathColumn(frame)
                    THEN /\ ret'[1].status = "ok"
                         /\ sign_log' = [i \in 1..Len(GsCells(frame)) |-> GsCells(frame)[i].s]
                    ELSE /\ ret'[1].status = "ValueError"
                         /\ sign_log' = << >>]_vars

C6_Witness ==
    /\ calls = 3 /\ ~parsed /\ sign_log = << >>
    /\ Len(TheFrame.rows) = 2
    /\ TheRet.status = "ok"
    /\ TheRet.records[1].__sign_error__ = Str(denied)
    /\ TheRet.records[2].url.t = "str"
    /\ Cardinality(loaded) = 2


(***************************************************************************)
(* Query params (view-mode persistence).  A value is a string (the         *)
(* st.query_params API), a list of strings (the experimental API), or      *)
(* None when the key is absent.                                            *)
(***************************************************************************)
List(items) == [t |-> "list", s |-> items]

\* qp_get(): a copy of the query parameters.
qp_get(qp) == qp

\* Mutant: only the view parameter is written back.
qp_set_view_only(qp, params) == [k \in {view} |-> DictGet(params, view, None)]

\* qp_set(params): clear, then update with params.
qp_set(qp, params) == params

\* The view-mode block: what it reads, the radio's default, the mode the
\* radio returns (picked: the default or the user's choice) and the query
\* parameters it leaves.
ViewBlock(qp, picked) ==
    LET raw == DictGet(qp_get(qp), view, None)
        vp == IF raw.t = "list"
              THEN (IF raw.s # << >> THEN Str(raw.s[1]) ELSE None)
              ELSE raw
        idx == IF IsStr(vp) /\ Lower(vp.s) = grid THEN 1 ELSE 0
        desired == IF picked = Grid THEN grid ELSE table
        current == IF Truthy(vp) THEN vp ELSE Str(table)
    IN [_view_param |-> vp,
        _initial_index |-> idx,
        view_mode |-> picked,
        query_params |-> IF current # Str(desired)
                         THEN qp_set(qp, DictSet(qp_get(qp), view, Str(desired)))
                         ELSE qp]

(***************************************************************************)
(* Filtering (AND).                                                        *)
(***************************************************************************)
RECURSIVE MatchesFrom(_, _, _, _)

\* Mutant: a selected set without required values is not looked up.
MatchesFromSkipsPresence(rec, sets, selected, k) ==
    IF k > Len(sets) THEN TRUE
    ELSE LET s == sets[k]
             req_vals == DictGet(selected, s, << >>)
         IN IF req_vals # << >>
            THEN IF s \notin DOMAIN rec.labels_by_set THEN FALSE
                 ELSE IF ~(\A v \in Range(req_vals) :
                             v \in Range(DictGet(rec.labels_by_set, s, << >>)))
                      THEN FALSE
                      ELSE MatchesFrom(rec, sets, selected, k + 1)
            ELSE MatchesFrom(rec, sets, selected, k + 1)

\* Mutant: one of the required values is enough.
MatchesFromAny(rec, sets, selected, k) ==
    IF k > Len(sets) THEN TRUE
    ELSE LET s == sets[k]
         IN IF s \notin DOMAIN rec.labels_by_set THEN FALSE
            ELSE LET req_vals == DictGet(selected, s, << >>)
                 IN IF req_vals # << >>
                       /\ ~(\E v \in Range(req_vals) :
                              v \in Range(DictGet(rec.labels_by_set, s, << >>)))
                    THEN FALSE
                    ELSE MatchesFrom(rec, sets, selected, k + 1)

\* The loop of record_matches_filters from the k-th selected set on.
MatchesFrom(rec, sets, selected, k) ==
    IF k > Len(sets) THEN TRUE
    ELSE LET s == sets[k]
         IN IF s \notin DOMAIN rec.labels_by_set THEN FALSE
            ELSE LET req_vals == DictGet(selected, s, << >>)
                 IN IF req_vals # << >>
                       /\ ~(\A v \in Range(req_vals) :
                              v \in Range(DictGet(rec.labels_by_set, s, << >>)))
                    THEN FALSE
                    ELSE MatchesFrom(rec, sets, selected, k + 1)

record_matches_filters(rec, sets, selected) == MatchesFrom(rec, sets, selected, 1)

\* filtered = [r for r in records if record_matches_filters(r)]
Filtered(recs, sets, selected) ==
    SelectSeq(recs, LAMBDA r : record_matches_filters(r, sets, selected))

\* What a multiselect can return: the chosen options, each once, in the
\* order they were chosen.
Selections(options) ==
    {sel \in UNION {[1..n -> Range(options)] : n \in 0..Len(options)} :
        \A i, j \in 1..Len(sel) : i # j => sel[i] # sel[j]}

\* selected_labels_per_set: one multiselect per selected set, over
\* labels_per_set.get(s, []).
LabelSelections(sets, lps) ==
    {sel \in [Range(sets) ->
                UNION {Selections(DictGet(lps, s, << >>)) : s \in Range(sets)}] :
        \A s \in Range(sets) : sel[s] \in Selections(DictGet(lps, s, << >>))}

(***************************************************************************)
(* Grid view: per filtered record an image or the "No preview" caption.    *)
(***************************************************************************)
GridCells(recs) ==
    [i \in 1..Len(recs) |->
        IF Truthy(recs[i].url)
        THEN [kind |-> "img", src |-> recs[i].url]
        ELSE [kind |-> "No preview", src |-> None]]

(***************************************************************************)
(* Table view.  A display row is a dict; pd.DataFrame(rows) has the union  *)
(* of the rows' keys as columns and NaN where a row lacks a key;           *)
(* reindex(columns=col_order) takes the columns named, in that order.      *)
(***************************************************************************)
RECURSIVE SetColumns(_, _, _, _)
SetColumns(row, rec, sets, k) ==
    IF k > Len(sets) THEN row
    ELSE LET vals == DictGet(rec.labels_by_set, sets[k], << >>)
         IN SetColumns(DictSet(row, sets[k],
                               IF vals # << >> THEN Str(Join(comma_space, vals))
                               ELSE Str(empty_str)),
                       rec, sets, k + 1)

to_row(rec, sets, with_url) ==
    LET r1 == DictSet(EmptyDict, Preview, rec.url)
        r2 == IF with_url
              THEN DictSet(r1, URL, IF Truthy(rec.url) THEN rec.url ELSE Str(empty_str))
              ELSE r1
        r3 == SetColumns(r2, rec, sets, 1)
    IN IF Truthy(rec.__sign_error__)
       THEN DictSet(r3, Signing_error, rec.__sign_error__)
       ELSE r3

\* df = pd.DataFrame([...]); col_order = ...; df = df.reindex(columns=col_order)
TableOf(recs, sets, with_url) ==
    LET rows == [i \in 1..Len(recs) |-> to_row(recs[i], sets, with_url)]
        frame_columns == UNION {DOMAIN rows[i] : i \in 1..Len(rows)}
        col_order == <<Preview>> \o (IF with_url THEN <<URL>> ELSE << >>) \o sets
                     \o (IF Signing_error \in frame_columns
                         THEN <<Signing_error>> ELSE << >>)
    IN [columns |-> col_order,
        rows |-> [i \in 1..Len(rows) |->
                    [c \in 1..Len(col_order) |->
                        DictGet(rows[i], col_order[c], NaN)]]]

NoTable == [columns |-> << >>, rows |-> << >>]

(***************************************************************************)
(* One run of the script: the uploaded file, the signing service's answers *)
(* and the widgets' values are its inputs.                                 *)
(***************************************************************************)
LoadPart(file, answers) ==
    LET r == CachedLoad(cache, file, signed_expiry_hours, answers)
    IN /\ path_or_buffer' = <<file>>
       /\ expiry_hours' = signed_expiry_hours
       /\ signing' = IF r.parsed THEN answers ELSE << >>
       /\ ret' = <<r.value>>
       /\ sign_log' = r.sign_log
       /\ parsed' = r.parsed
       /\ cache' = r.cache
       /\ loaded' = IF r.value.status = "ok"
                     THEN loaded \cup {<<file, signed_expiry_hours, r.value>>}
                     ELSE loaded

\* if not uploaded_file: st.info(...); st.stop()
NoFile ==
    /\ uploaded_file = NoFrame
    /\ outcome' = "no file"
    /\ grid_cells' = << >>
    /\ df' = NoTable
    /\ UNCHANGED <<loadVars, calls, uploaded_file, viewVars, dataVars, filterVars,
                   show_url>>

\* load_records_from_csv raises: the run ends with the exception.
SchemaError(file, answers) ==
    /\ CachedLoad(cache, file, signed_expiry_hours, answers).value.status # "ok"
    /\ uploaded_file' = <<file>>
    /\ LoadPart(file, answers)
    /\ outcome' = "ValueError"
    /\ grid_cells' = << >>
    /\ df' = NoTable
    /\ UNCHANGED <<calls, viewVars, dataVars, filterVars, show_url>>

\* The run up to the filtering: load, view mode, filter widgets, filtered.
Shown(file, answers, picked, with_url) ==
    LET r == CachedLoad(cache, file, signed_expiry_hours, answers).value
        v == ViewBlock(query_params, picked)
    IN /\ r.status = "ok"
       /\ uploaded_file' = <<file>>
       /\ LoadPart(file, answers)
       /\ records' = r.records
       /\ all_sets' = r.all_sets
       /\ labels_per_set' = r.labels_per_set
       /\ _view_param' = v._view_param
       /\ _initial_index' = v._initial_index
       /\ view_mode' = v.view_mode
       /\ query_params' = v.query_params
       /\ \E sets \in Selections(r.all_sets) :
            \E selected \in LabelSelections(sets, r.labels_per_set) :
               /\ sets_filter' = sets
               /\ selected_labels_per_set' = selected
               /\ filtered' = Filtered(r.records, sets, selected)
       /\ show_url' = with_url
       /\ UNCHANGED calls

\* if view_mode == "Grid": ... st.stop()
GridView(file, answers, with_url) ==
    /\ Shown(file, answers, Grid, with_url)
    /\ outcome' = IF filtered' = << >> THEN "grid: no images match" ELSE "grid"
    /\ grid_cells' = GridCells(filtered')
    /\ df' = NoTable

\* Table view
TableView(file, answers, with_url) ==
    /\ Shown(file, answers, Table, with_url)
    /\ df' = TableOf(filtered', all_sets', with_url)
    /\ outcome' = IF df'.rows = << >> THEN "table: no images match" ELSE "table"
    /\ grid_cells' = << >>

PageLabelCells == {NaN, Str(val_a), Str(val_sp_b)}
PagePathCells == {NaN, Str(http_x)}

PageRowsFor(columns) ==
    {r \in [1..Len(columns) -> PagePathCells \cup PageLabelCells] :
        \A i \in 1..Len(columns) :
            r[i] \in (IF columns[i] = image_path THEN PagePathCells ELSE PageLabelCells)}

PageHeaders == {<<image_path, species>>, <<species>>}

PageFrames ==
    UNION {{[columns |-> h, rows |-> rs] : rs \in [1..n -> PageRowsFor(h)]} :
             h \in PageHeaders, n \in 0..MaxRows}

\* The file of this run: the one uploaded before, or the one uploaded now.
FileNow == IF uploaded_file = NoFrame THEN PageFrames ELSE {uploaded_file[1]}

\* The service is asked only when the load is not cached.
AnswersNow(file) ==
    IF CacheKey(file, signed_expiry_hours) \in DOMAIN cache
    THEN {[i \in 1..Len(file.rows) |-> SignOk]}
    ELSE AnswersFor(file)

RunSchemaError ==
    \E file \in FileNow : \E answers \in AnswersNow(file) : SchemaError(file, answers)

RunGrid ==
    \E file \in FileNow : \E answers \in AnswersNow(file) :
        \E with_url \in BOOLEAN : GridView(file, answers, with_url)

RunTable ==
    \E file \in FileNow : \E answers \in AnswersNow(file) :
        \E with_url \in BOOLEAN : TableView(file, answers, with_url)

NextPage == NoFile \/ RunSchemaError \/ RunGrid \/ RunTable

SpecPage == Init /\ [][NextPage]_vars

(***************************************************************************)
(* Reruns of the script with a file uploaded, the page opened with any     *)
(* query string.                                                           *)
(***************************************************************************)
ViewFrames ==
    {[columns |-> <<image_path, species>>,
      rows |-> <<<<Str(gs_a), Str(val_a)>>, <<NaN, Str(val_sp_b)>>>>],
     [columns |-> <<Preview, image_path>>,
      rows |-> <<<<Str(val_a), Str(http_x)>>, <<NaN, Str(gs_a)>>>>]}

UrlViewValues ==
    {None, Str(empty_str), Str(grid), Str(GRID), Str(table), Str(foo),
     List(<<grid, table>>), List(<<table>>), List(<<empty_str>>)}

UrlQueryParams ==
    {[k \in {view, page} |-> IF k = view THEN v ELSE Str(foo)] : v \in UrlViewValues \ {None}}
    \cup {[k \in {page} |-> List(<<foo>>)], EmptyDict}

InitView ==
    /\ InitLoad
    /\ uploaded_file \in {<<f>> : f \in ViewFrames}
    /\ query_params \in UrlQueryParams
    /\ _view_param = None
    /\ _initial_index = 0
    /\ view_mode = Table
    /\ records = << >>
    /\ all_sets = << >>
    /\ labels_per_set = EmptyDict
    /\ sets_filter = << >>
    /\ selected_labels_per_set = EmptyDict
    /\ show_url = FALSE
    /\ filtered = << >>
    /\ outcome = "none"
    /\ grid_cells = << >>
    /\ df = NoTable

NextView == RunGrid \/ RunTable

SpecView == InitView /\ [][NextView]_vars


(***************************************************************************)
(* record_matches_filters applied to any record list and any filter: the   *)
(* records may hold several values per set, the filter may name sets and   *)
(* values no record has, and may lack the value list of a selected set.    *)
(***************************************************************************)
MaxFilterRecords == 2

ValueLists == {<<val_a>>, <<val_b>>, <<val_a, val_b>>}

FilterLabels ==
    {[s \in keys |-> IF s = species THEN sp ELSE <<val_a>>] :
        keys \in SUBSET {species, age}, sp \in ValueLists}

FilterRecords ==
    {[url |-> None, labels_by_set |-> l, __sign_error__ |-> None] : l \in FilterLabels}

FilterSelected ==
    {[s \in keys |-> IF s = species THEN sp ELSE ag] :
        keys \in SUBSET {species, age},
        sp \in {<< >>, <<val_a>>, <<val_a, val_b>>},
        ag \in {<< >>, <<val_a>>, <<val_b>>}}

InitFilter ==
    /\ InitLoad
    /\ uploaded_file = NoFrame
    /\ query_params = EmptyDict
    /\ _view_param = None
    /\ _initial_index = 0
    /\ view_mode = Table
    /\ records \in UNION {[1..n -> FilterRecords] : n \in 0..MaxFilterRecords}
    /\ all_sets = << >>
    /\ labels_per_set = EmptyDict
    /\ sets_filter \in Selections(<<species, age>>)
    /\ selected_labels_per_set \in FilterSelected
    /\ show_url = FALSE
    /\ filtered = << >>
    /\ outcome = "none"
    /\ grid_cells = << >>
    /\ df = NoTable

ApplyFilter ==
    /\ outcome = "none"
    /\ filtered' = Filtered(records, sets_filter, selected_labels_per_set)
    /\ outcome' = "filtered"
    /\ UNCHANGED <<loadVars, calls, uploaded_file, viewVars, dataVars, sets_filter,
                   selected_labels_per_set, show_url, grid_cells, df>>

SpecFilter == InitFilter /\ [][ApplyFilter]_vars

(***************************************************************************)
(* C1: the filtered list is exactly the records, in input order, that for  *)
(* every selected set s have the key s and hold every value of             *)
(* selected_labels_per_set.get(s, []); an empty sets_filter keeps every    *)
(* record, an empty value list asks only for the set to be present.        *)
(***************************************************************************)
Keeps(rec, sets, selected) ==
    \A k \in 1..Len(sets) :
        /\ sets[k] \in DOMAIN rec.labels_by_set
        /\ \A v \in (IF sets[k] \in DOMAIN selected
                     THEN {selected[sets[k]][x] : x \in 1..Len(selected[sets[k]])}
                     ELSE {}) :
             \E y \in 1..Len(rec.labels_by_set[sets[k]]) :
                 rec.labels_by_set[sets[k]][y] = v

\* out is the subsequence of recs, in order, at the positions kept.
IsSubsequenceAt(out, recs, kept) ==
    \E f \in [1..Len(out) -> 1..Len(recs)] :
        /\ \A i, j \in 1..Len(out) : i < j => f[i] < f[j]
        /\ {f[i] : i \in 1..Len(out)} = kept
        /\ \A i \in 1..Len(out) : out[i] = recs[f[i]]

C1_FilterConjunction ==
    outcome = "filtered" =>
        /\ IsSubsequenceAt(filtered, records,
              {i \in 1..Len(records) :
                  Keeps(records[i], sets_filter, selected_labels_per_set)})
        /\ sets_filter = << >> => filtered = records
        /\ (\A k \in 1..Len(sets_filter) :
               DictGet(selected_labels_per_set, sets_filter[k], << >>) = << >>) =>
             IsSubsequenceAt(filtered, records,
                {i \in 1..Len(records) :
                    \A k \in 1..Len(sets_filter) :
                        sets_filter[k] \in DOMAIN records[i].labels_by_set})

C1_Witness ==
    /\ outcome = "filtered"
    /\ sets_filter = <<age, species>>
    /\ selected_labels_per_set = (species :> <<val_a, val_b>>)
    /\ Len(records) = 2
    /\ records[1].labels_by_set = (species :> <<val_a, val_b>>)
    /\ records[2].labels_by_set = (species :> <<val_a, val_b>> @@ age :> <<val_a>>)
    /\ filtered = <<records[2]>>

(***************************************************************************)
(* C7: a CSV without the image_path column makes the load raise before a   *)
(* row is processed: no signing call, no records, no vocabulary, and the   *)
(* run ends there, without filtering and without rendering.                *)
(***************************************************************************)
C7_SchemaErrorStops ==
    (uploaded_file # NoFrame /\ ~HasPathColumn(uploaded_file[1])) =>
        /\ outcome = "ValueError"
        /\ TheRet.status = "ValueError"
        /\ TheRet.records = << >> /\ TheRet.all_sets = << >>
        /\ sign_log = << >>
        /\ cache = EmptyDict
        /\ records = << >> /\ all_sets = << >> /\ labels_per_set = EmptyDict
        /\ filtered = << >> /\ grid_cells = << >> /\ df = NoTable

C7_Witness ==
    /\ outcome = "ValueError"
    /\ uploaded_file # NoFrame
    /\ uploaded_file[1].columns = <<species>>
    /\ Len(uploaded_file[1].rows) = 2
    /\ uploaded_file[1].rows[1] = <<Str(val_a)>>

(***************************************************************************)
(* C8: the table has one row per filtered record, in order, and exactly    *)
(* the columns Preview (the record's url), URL (when toggled on), one per  *)
(* set of all_sets in order (the comma-joined values, or ""), and Signing  *)
(* error if and only if a displayed record has a signing error.            *)
(***************************************************************************)
TableShown == outcome \in {"table", "table: no images match"}

C8_TableColumns ==
    TableShown =>
        LET n_url == IF show_url THEN 1 ELSE 0
            has_error == \E i \in 1..Len(filtered) : Truthy(filtered[i].__sign_error__)
        IN /\ df.columns = <<Preview>> \o (IF show_url THEN <<URL>> ELSE << >>)
                           \o all_sets
                           \o (IF has_error THEN <<Signing_error>> ELSE << >>)
           /\ Len(df.rows) = Len(filtered)
           /\ \A i \in 1..Len(filtered) :
                /\ df.rows[i][1] = filtered[i].url
                /\ \A k \in 1..Len(all_sets) :
                     df.rows[i][1 + n_url + k] =
                        IF all_sets[k] \in DOMAIN filtered[i].labels_by_set
                        THEN Str(Join(comma_space, filtered[i].labels_by_set[all_sets[k]]))
                        ELSE Str(empty_str)

(***************************************************************************)
(* C9 as stated: the view mode starts as Grid when the view parameter is   *)
(* grid and as Table when it is absent or not recognized; after a run the  *)
(* view parameter is absent (only with mode Table and the parameter never  *)
(* set) or is exactly table or grid, matching the selected mode; the other *)
(* query parameters are unchanged.                                         *)
(***************************************************************************)
\* The values the URL holds for a parameter.
UrlValues(v) ==
    IF v.t = "none" THEN << >> ELSE IF v.t = "list" THEN v.s ELSE <<v.s>>

IsGridAnyCase(s) ==
    /\ Len(s) = 4
    /\ s[1] \in {103, 71} /\ s[2] \in {114, 82} /\ s[3] \in {105, 73} /\ s[4] \in {100, 68}

StartsAsGrid(v) == UrlValues(v) # << >> /\ IsGridAnyCase(UrlValues(v)[1])

ModeName(mode) == IF mode = Grid THEN grid ELSE table

OthersUnchanged ==
    /\ DOMAIN query_params' \ {view} = DOMAIN query_params \ {view}
    /\ \A k \in DOMAIN query_params \ {view} : query_params'[k] = query_params[k]

C9_AsStated ==
    [][LET old == DictGet(query_params, view, None)
           new == DictGet(query_params', view, None)
       IN /\ _initial_index' = (IF StartsAsGrid(old) THEN 1 ELSE 0)
          /\ \/ /\ UrlValues(new) = << >>
                /\ UrlValues(old) = << >>
                /\ view_mode' = Table
             \/ UrlValues(new) = <<ModeName(view_mode')>>
          /\ OthersUnchanged]_vars

(***************************************************************************)
(* C9 amended: the view mode starts as Grid when the first value of the    *)
(* view parameter is grid in any letter case, else as Table; after a run   *)
(* the view parameter is either unchanged, and then its first value, or    *)
(* table when it is absent or empty, names the selected mode, or it is     *)
(* exactly table or grid, matching the selected mode; every other query    *)
(* parameter keeps its value.                                              *)
(***************************************************************************)
EffectiveView(v) ==
    IF UrlValues(v) = << >> \/ UrlValues(v)[1] = << >> THEN table ELSE UrlValues(v)[1]

C9_ViewPersisted ==
    [][LET old == DictGet(query_params, view, None)
           new == DictGet(query_params', view, None)
       IN /\ _initial_index' = (IF StartsAsGrid(old) THEN 1 ELSE 0)
          /\ \/ new = old /\ EffectiveView(old) = ModeName(view_mode')
             \/ new = Str(ModeName(view_mode'))
          /\ OthersUnchanged]_vars

C9_Witness ==
    /\ outcome = "grid"
    /\ _view_param = Str(GRID)
    /\ _initial_index = 1
    /\ view_mode = Grid
    /\ query_params = (view :> Str(grid) @@ page :> Str(foo))

(***************************************************************************)
(* C10: every loaded record holds one value per label set, so a filter     *)
(* that requires two distinct values of a selected set keeps no record,    *)
(* and a filter that requires the one value v of the set s keeps exactly   *)
(* the records whose value for s is v.                                     *)
(***************************************************************************)
PageShown == outcome \in {"grid", "grid: no images match", "table", "table: no images match"}

C10_SingleValued ==
    PageShown =>
        /\ \A i \in 1..Len(records) : \A s \in DOMAIN records[i].labels_by_set :
             Len(records[i].labels_by_set[s]) = 1
        /\ \A k \in 1..Len(sets_filter) :
             Cardinality(Range(selected_labels_per_set[sets_filter[k]])) >= 2 =>
                filtered = << >>
        /\ \A k \in 1..Len(sets_filter) :
             Len(selected_labels_per_set[sets_filter[k]]) = 1 =>
                \A i \in 1..Len(filtered) :
                    filtered[i].labels_by_set[sets_filter[k]] =
                        selected_labels_per_set[sets_filter[k]]
        /\ (Len(sets_filter) = 1 /\ Len(selected_labels_per_set[sets_filter[1]]) = 1) =>
             IsSubsequenceAt(filtered, records,
                {i \in 1..Len(records) :
                    /\ sets_filter[1] \in DOMAIN records[i].labels_by_set
                    /\ records[i].labels_by_set[sets_filter[1]] =
                         selected_labels_per_set[sets_filter[1]]})

C10_Witness ==
    /\ PageShown
    /\ Len(records) = 2
    /\ records[1].labels_by_set = (species :> <<val_a>>)
    /\ records[2].labels_by_set = (species :> <<val_b>>)
    /\ sets_filter = <<species>>
    /\ selected_labels_per_set = (species :> <<val_b, val_a>>)
    /\ filtered = << >>

=============================================================================
